---- MODULE Spec2Model ----
(***************************************************************************)
(* A state-machine model of the three scheduling engines of the CPU        *)
(* scheduling simulator:                                                   *)
(*   shortest_remaining_time_first  (shortest_remaining_time_first.c)      *)
(*   priority_preemptive_rr         (skeleton_round_robin.c, 365-487)      *)
(*   round_robin                    (skeleton_round_robin.c, 688-797)      *)
(* Arrays are 0-based functions, as in the C code.  One action is one      *)
(* entry into an engine, one iteration of an engine's main loop (for the   *)
(* priority engine: one executed time unit, with the group selection that  *)
(* precedes it when the unit is the first of an outer iteration), or the   *)
(* engine's return.  A session is a sequence of calls of engines on the     *)
(* same registry, as the caller makes them; Session_Advance is the caller  *)
(* between two calls.                                                      *)
(***************************************************************************)
EXTENDS Integers, Sequences, FiniteSets, TLC

\* ----------------------------------------------------------------- bounds
MaxProcs == 3
MaxArrival == 2
MaxBurst == 3
MaxPriority == 2
MaxQuantum == 2
\* Sessions of several calls draw their registries from narrower ranges.
SessionArrival == 1
SessionBurst == 2

\* ------------------------------------------------------ program constants
INT_MAX == 2147483647
QUEUE_MAX == 1000

VARIABLES
    processes,          \* ctx->processes[0 .. num_processes-1]
    num_processes,      \* ctx->num_processes
    ctx_time_quantum,   \* ctx->time_quantum
    engine,             \* the engine the caller invokes: "SRT", "RR", "PRI"
    pc,                 \* "call", "loop", "rot", "exit", "done"; "end" of a session
    time_quantum,       \* the engine's local / parameter time_quantum
    current_time,       \* current_time (SRT, priority engine), time (round_robin)
    completed,          \* completed
    highest_priority,   \* priority engine: highest_priority of the outer iteration
    ready_processes,    \* priority engine: ready_processes[0 .. ready_count-1]
    ready_count,        \* priority engine: ready_count
    r,                  \* priority engine: rotation index r
    t,                  \* priority engine: unit index t inside the slice
    run_for,            \* priority engine: run_for of the current slice
    remaining_time,     \* round_robin: local remaining_time[]
    is_completed,       \* round_robin: local is_completed[]
    in_ready_queue,     \* round_robin: local in_ready_queue[]
    q,                  \* round_robin: Queue q (items, front, rear)
    trace,              \* history: the steps of the run so far, oldest first
    input,              \* the registry as the caller loaded it
    plan,               \* the calls the caller makes in this session (empty: just one)
    calls               \* the results of the calls that have returned, oldest first

vars == << processes, num_processes, ctx_time_quantum, engine, pc, time_quantum,
           current_time, completed, highest_priority, ready_processes,
           ready_count, r, t, run_for, remaining_time, is_completed,
           in_ready_queue, q, trace, input, plan, calls >>

pri_vars == << highest_priority, ready_processes, ready_count, r, t, run_for >>
rr_vars == << remaining_time, is_completed, in_ready_queue, q >>
session_vars == << input, plan, calls >>
ctx_vars == << num_processes, ctx_time_quantum, engine, session_vars >>

Idx == 0 .. (num_processes - 1)

\* ------------------------------------------------------------ the registry
\* reset_process_states is declared in CPU_scheduler.h and defined outside the
\* two source files; it restores remaining_time to burst_time and clears
\* completion_time.
reset_process_states(procs) ==
    [i \in DOMAIN procs |->
        [procs[i] EXCEPT !.remaining_time = procs[i].burst_time,
                         !.completion_time = 0]]

\* for (i = 0; i < n; i++) processes[i].remaining_time = processes[i].burst_time;
init_remaining(procs) ==
    [i \in DOMAIN procs |-> [procs[i] EXCEPT !.remaining_time = procs[i].burst_time]]

\* One entry of the history: an idle jump, the defensive break, or the execution
\* of pid from start to end_time; fin says that the step assigned completion_time.
Step(kind, pid, start, end_time, fin) ==
    [kind |-> kind, pid |-> pid, start |-> start, end |-> end_time, fin |-> fin]

\* remaining_after_unit without the decrement.
remaining_after_unit_kept(rem) == rem

\* p->remaining_time--
remaining_after_unit(rem) == rem - 1

\* next_time without the increment.
next_time_stuck(now) == now

\* current_time++
next_time(now) == now + 1

\* --------------------------------------------------- shared scan fragments
\* is_ready without the test of the arrival time.
is_ready_any_arrival(p, now) == p.remaining_time > 0

\* p->arrival_time <= current_time && p->remaining_time > 0
is_ready(p, now) == p.arrival_time <= now /\ p.remaining_time > 0

\* The idle-jump scan of the SRT and the priority engine: the least
\* arrival_time > now among processes with remaining_time > 0, INT_MAX if none.
RECURSIVE next_arrival_scan(_, _, _, _, _)
next_arrival_scan(procs, n, now, i, next_arrival) ==
    IF i >= n THEN next_arrival
    ELSE next_arrival_scan(procs, n, now, i + 1,
            IF /\ procs[i].remaining_time > 0
               /\ procs[i].arrival_time > now
               /\ procs[i].arrival_time < next_arrival
            THEN procs[i].arrival_time
            ELSE next_arrival)

\* find_next_arrival looking only at arrivals more than one unit ahead.
find_next_arrival_skip(procs, n, now) == next_arrival_scan(procs, n, now + 1, 0, INT_MAX)

\* find_next_arrival overshooting the arrival by one unit.
find_next_arrival_overshoot(procs, n, now) ==
    next_arrival_scan(procs, n, now, 0, INT_MAX) + 1

find_next_arrival(procs, n, now) == next_arrival_scan(procs, n, now, 0, INT_MAX)

\* ------------------------------------------ shortest_remaining_time_first
\* srt_tie_break without the comparison of the pids.
srt_tie_break_no_pid(p, best) ==
    IF p.arrival_time < best.arrival_time THEN TRUE
    ELSE FALSE

\* srt_tie_break preferring the later arrival.
srt_tie_break_latest_arrival(p, best) ==
    IF p.arrival_time > best.arrival_time THEN TRUE
    ELSE IF p.arrival_time = best.arrival_time THEN p.pid < best.pid
    ELSE FALSE

\* The tie-break of the selection scan: candidate p against the current best,
\* both with the same remaining_time.
srt_tie_break(p, best) ==
    IF p.arrival_time < best.arrival_time THEN TRUE
    ELSE IF p.arrival_time = best.arrival_time THEN p.pid < best.pid
    ELSE FALSE

\* One visit of the selection scan: acc = [shortest, min_remaining_time].
srt_visit(procs, now, i, acc) ==
    LET p == procs[i] IN
    IF is_ready(p, now)
    THEN IF p.remaining_time < acc.min_remaining_time
         THEN [shortest |-> i, min_remaining_time |-> p.remaining_time]
         ELSE IF p.remaining_time = acc.min_remaining_time
                 /\ srt_tie_break(p, procs[acc.shortest])
              THEN [acc EXCEPT !.shortest = i]
              ELSE acc
    ELSE acc

RECURSIVE srt_scan(_, _, _, _, _)
srt_scan(procs, n, now, i, acc) ==
    IF i >= n THEN acc
    ELSE srt_scan(procs, n, now, i + 1, srt_visit(procs, now, i, acc))

find_shortest(procs, n, now) ==
    srt_scan(procs, n, now, 0, [shortest |-> -1, min_remaining_time |-> INT_MAX]).shortest

\* unit_completes one unit early.
unit_completes_early(rem) == rem <= 1

\* Whether a process that has just executed a unit is recorded as complete.
unit_completes(rem) == rem = 0

SRT_Call ==
    /\ engine = "SRT" /\ pc = "call"
    /\ processes' = init_remaining(reset_process_states(processes))
    /\ current_time' = 0
    /\ completed' = 0
    /\ pc' = "loop"
    /\ trace' = << >>
    /\ UNCHANGED << ctx_vars, time_quantum, pri_vars, rr_vars >>

\* One iteration of while (completed < n).
SRT_Iter ==
    /\ engine = "SRT" /\ pc = "loop" /\ completed < num_processes
    /\ LET n == num_processes
           shortest == find_shortest(processes, n, current_time)
       IN IF shortest = -1
          THEN LET next_arrival == find_next_arrival(processes, n, current_time) IN
               /\ IF next_arrival # INT_MAX
                  THEN /\ current_time' = next_arrival
                       /\ pc' = "loop"
                       /\ trace' = Append(trace, Step("idle", 0, current_time, next_arrival, FALSE))
                  ELSE /\ current_time' = current_time
                       /\ pc' = "exit"
                       /\ trace' = Append(trace, Step("break", 0, current_time, current_time, FALSE))
               /\ UNCHANGED << processes, completed >>
          ELSE LET p == processes[shortest]
                   rem == remaining_after_unit(p.remaining_time)
                   now == next_time(current_time)
                   fin == unit_completes(rem)
               IN /\ processes' = [processes EXCEPT ![shortest] =
                        [p EXCEPT !.remaining_time = rem,
                                  !.completion_time = IF fin THEN now ELSE @]]
                  /\ current_time' = now
                  /\ completed' = IF fin THEN completed + 1 ELSE completed
                  /\ trace' = Append(trace, Step("exec", p.pid, current_time, now, fin))
                  /\ pc' = "loop"
    /\ UNCHANGED << ctx_vars, time_quantum, pri_vars, rr_vars >>

\* The loop is left (condition false, or the defensive break): display_results.
SRT_Return ==
    /\ engine = "SRT"
    /\ pc \in {"loop", "exit"}
    /\ pc = "loop" => completed >= num_processes
    /\ pc' = "done"
    /\ UNCHANGED << processes, ctx_vars, time_quantum, current_time, completed,
                    pri_vars, rr_vars, trace >>

\* --------------------------------------------------- priority_preemptive_rr
\* pri_quantum with a default of 1.
pri_quantum_default_one(configured) == IF configured <= 0 THEN 1 ELSE configured

\* int time_quantum = ctx->time_quantum; if (time_quantum <= 0) time_quantum = 2;
pri_quantum(configured) == IF configured <= 0 THEN 2 ELSE configured

\* One visit of the group scan: acc = [highest_priority, ready_processes, ready_count].
pri_visit(procs, now, i, acc) ==
    LET p == procs[i] IN
    IF is_ready(p, now)
    THEN IF p.priority < acc.highest_priority
         THEN [highest_priority |-> p.priority,
               ready_processes |-> [k \in {0} |-> i],
               ready_count |-> 1]
         ELSE IF p.priority = acc.highest_priority
              THEN [acc EXCEPT
                      !.ready_processes =
                          [k \in 0 .. acc.ready_count |->
                              IF k < acc.ready_count THEN acc.ready_processes[k] ELSE i],
                      !.ready_count = acc.ready_count + 1]
              ELSE acc
    ELSE acc

RECURSIVE pri_scan(_, _, _, _, _)
pri_scan(procs, n, now, i, acc) ==
    IF i >= n THEN acc
    ELSE pri_scan(procs, n, now, i + 1, pri_visit(procs, now, i, acc))

find_ready_group(procs, n, now) ==
    pri_scan(procs, n, now, 0,
             [highest_priority |-> INT_MAX, ready_processes |-> << >>, ready_count |-> 0])

\* pri_out_of_order that leaves the group in the order of the process array.
pri_out_of_order_never(pa, pb) == FALSE

\* pri_out_of_order with the comparison reversed.
pri_out_of_order_descending(pa, pb) == pa.pid < pb.pid

\* The comparison of the bubble sort of the ready group.
pri_out_of_order(pa, pb) == pa.pid > pb.pid

\* Bubble sort of ready_processes[0 .. ready_count-1] by ascending pid.
RECURSIVE pri_bubble(_, _, _, _, _)
pri_bubble(procs, ready, count, i, j) ==
    IF i >= count - 1 THEN ready
    ELSE IF j >= count - 1 - i THEN pri_bubble(procs, ready, count, i + 1, 0)
    ELSE pri_bubble(procs,
                    IF pri_out_of_order(procs[ready[j]], procs[ready[j + 1]])
                    THEN [ready EXCEPT ![j] = ready[j + 1], ![j + 1] = ready[j]]
                    ELSE ready,
                    count, i, j + 1)

sort_ready_group(procs, ready, count) == pri_bubble(procs, ready, count, 0, 0)

\* higher_priority_arrived with the priority convention reversed.
higher_priority_arrived_reversed(procs, n, now, hp) ==
    \E j \in 0 .. (n - 1) :
        /\ procs[j].arrival_time = now
        /\ procs[j].remaining_time > 0
        /\ procs[j].priority > hp

\* The scan after every unit: a process arriving exactly now, incomplete, with a
\* priority value below highest_priority.
higher_priority_arrived(procs, n, now, hp) ==
    \E j \in 0 .. (n - 1) :
        /\ procs[j].arrival_time = now
        /\ procs[j].remaining_time > 0
        /\ procs[j].priority < hp

\* The header of the rotation loop from index rr on: the first r >= rr with
\* r < ready_count && completed < n whose process has remaining_time > 0
\* (members with remaining_time <= 0 are skipped by continue); -1 when the loop ends.
RECURSIVE next_member(_, _, _, _, _, _)
next_member(procs, ready, count, rr, done, n) ==
    IF ~(rr < count /\ done < n) THEN -1
    ELSE IF procs[ready[rr]].remaining_time <= 0
         THEN next_member(procs, ready, count, rr + 1, done, n)
         ELSE rr

\* slice_length that grants a single unit.
slice_length_single_unit(rem, quantum) == 1

\* run_for = (remaining_time < time_quantum) ? remaining_time : time_quantum
slice_length(rem, quantum) == IF rem < quantum THEN rem ELSE quantum

\* One unit of the slice of ready[rr], the unit with index tt, and the control
\* flow that follows it, up to the next unit or to the top of the outer loop.
pri_unit(procs, n, now0, done0, hp, ready, count, rr, tt, rf, quantum) ==
    LET idx == ready[rr]
        p == procs[idx]
        now == next_time(now0)
        rem == remaining_after_unit(p.remaining_time)
        fin == unit_completes(rem)
        procs1 == [procs EXCEPT ![idx] =
                     [p EXCEPT !.remaining_time = rem,
                               !.completion_time = IF fin THEN now ELSE @]]
        done1 == IF fin THEN done0 + 1 ELSE done0
        hpa == higher_priority_arrived(procs1, n, now, hp)
        nxt == next_member(procs1, ready, count, rr + 1, done1, n)
    IN  [processes |-> procs1, current_time |-> now, completed |-> done1,
         pid |-> p.pid, fin |-> fin, preempted |-> hpa,
         pc |-> IF hpa THEN "loop"
                ELSE IF ~fin /\ tt + 1 < rf THEN "rot"
                ELSE IF nxt = -1 THEN "loop" ELSE "rot",
         r  |-> IF hpa THEN rr
                ELSE IF ~fin /\ tt + 1 < rf THEN rr
                ELSE IF nxt = -1 THEN rr ELSE nxt,
         t  |-> IF hpa THEN tt
                ELSE IF ~fin /\ tt + 1 < rf THEN tt + 1
                ELSE 0,
         run_for |-> IF hpa THEN rf
                     ELSE IF ~fin /\ tt + 1 < rf THEN rf
                     ELSE IF nxt = -1 THEN rf
                     ELSE slice_length(procs1[ready[nxt]].remaining_time, quantum)]

PRI_Call ==
    /\ engine = "PRI" /\ pc = "call"
    /\ time_quantum' = pri_quantum(ctx_time_quantum)
    /\ processes' = init_remaining(reset_process_states(processes))
    /\ current_time' = 0
    /\ completed' = 0
    /\ pc' = "loop"
    /\ trace' = << >>
    /\ UNCHANGED << ctx_vars, pri_vars, rr_vars >>

\* At the top of while (completed < n) with nobody ready: idle-jump or break.
PRI_Idle ==
    /\ engine = "PRI" /\ pc = "loop" /\ completed < num_processes
    /\ find_ready_group(processes, num_processes, current_time).ready_count = 0
    /\ LET g == find_ready_group(processes, num_processes, current_time)
           next_arrival == find_next_arrival(processes, num_processes, current_time)
       IN /\ highest_priority' = g.highest_priority
          /\ ready_processes' = g.ready_processes
          /\ ready_count' = g.ready_count
          /\ IF next_arrival = INT_MAX
             THEN /\ current_time' = current_time
                  /\ pc' = "exit"
                  /\ trace' = Append(trace, Step("break", 0, current_time, current_time, FALSE))
             ELSE /\ current_time' = next_arrival
                  /\ pc' = "loop"
                  /\ trace' = Append(trace, Step("idle", 0, current_time, next_arrival, FALSE))
    /\ UNCHANGED << processes, ctx_vars, time_quantum, completed, r, t, run_for,
                    rr_vars >>

\* One executed time unit.  At the top of the outer loop the unit is preceded by
\* the selection and the sort of the ready group and is the first unit of the
\* slice of the first member; inside a rotation it is the next unit of the slice
\* of ready_processes[r].
PRI_Unit ==
    /\ engine = "PRI"
    /\ \/ pc = "rot"
       \/ /\ pc = "loop" /\ completed < num_processes
          /\ find_ready_group(processes, num_processes, current_time).ready_count > 0
    /\ \E g \in {IF pc = "loop"
                 THEN find_ready_group(processes, num_processes, current_time)
                 ELSE [highest_priority |-> highest_priority,
                       ready_processes |-> ready_processes,
                       ready_count |-> ready_count]} :
       \E ready \in {IF pc = "loop"
                     THEN sort_ready_group(processes, g.ready_processes, g.ready_count)
                     ELSE g.ready_processes} :
       \E rr \in {IF pc = "loop"
                  THEN next_member(processes, ready, g.ready_count, 0, completed,
                                   num_processes)
                  ELSE r} :
       \E rf \in {IF pc = "loop"
                  THEN slice_length(processes[ready[rr]].remaining_time, time_quantum)
                  ELSE run_for} :
       \E u \in {pri_unit(processes, num_processes, current_time, completed,
                          g.highest_priority, ready, g.ready_count, rr,
                          IF pc = "loop" THEN 0 ELSE t, rf, time_quantum)} :
          /\ highest_priority' = g.highest_priority
          /\ ready_processes' = ready
          /\ ready_count' = g.ready_count
          /\ processes' = u.processes
          /\ current_time' = u.current_time
          /\ completed' = u.completed
          /\ pc' = u.pc
          /\ r' = u.r
          /\ t' = u.t
          /\ run_for' = u.run_for
          /\ trace' = Append(trace, Step("exec", u.pid, current_time, u.current_time, u.fin))
    /\ UNCHANGED << ctx_vars, time_quantum, rr_vars >>

PRI_Return ==
    /\ engine = "PRI"
    /\ pc \in {"loop", "exit"}
    /\ pc = "loop" => completed >= num_processes
    /\ pc' = "done"
    /\ UNCHANGED << processes, ctx_vars, time_quantum, current_time, completed,
                    pri_vars, rr_vars, trace >>

\* -------------------------------------------------------------- round_robin
\* The circular queue.  items holds the slots written so far.
init_queue == [items |-> << >>, front |-> -1, rear |-> -1]

is_empty(qq) == qq.front = -1

set_item(items, k, v) ==
    [x \in (DOMAIN items) \cup {k} |-> IF x = k THEN v ELSE items[x]]

\* enqueue on a queue that is full as soon as it holds one item.
enqueue_capacity_one(qq, pid) ==
    IF ~is_empty(qq) THEN qq
    ELSE [items |-> set_item(qq.items, 0, pid), front |-> 0, rear |-> 0]

enqueue(qq, pid) ==
    IF (qq.rear + 1) % QUEUE_MAX = qq.front THEN qq
    ELSE IF is_empty(qq)
         THEN [items |-> set_item(qq.items, 0, pid), front |-> 0, rear |-> 0]
         ELSE [items |-> set_item(qq.items, (qq.rear + 1) % QUEUE_MAX, pid),
               front |-> qq.front,
               rear |-> (qq.rear + 1) % QUEUE_MAX]

\* dequeue taking the item at the rear of the queue.
dequeue_from_rear(qq) ==
    IF is_empty(qq) THEN [item |-> -1, q |-> qq]
    ELSE [item |-> qq.items[qq.rear],
          q |-> IF qq.front = qq.rear
                THEN [qq EXCEPT !.front = -1, !.rear = -1]
                ELSE [qq EXCEPT !.rear = (qq.rear - 1 + QUEUE_MAX) % QUEUE_MAX]]

\* dequeue: [item, q]
dequeue(qq) ==
    IF is_empty(qq) THEN [item |-> -1, q |-> qq]
    ELSE [item |-> qq.items[qq.front],
          q |-> IF qq.front = qq.rear
                THEN [qq EXCEPT !.front = -1, !.rear = -1]
                ELSE [qq EXCEPT !.front = (qq.front + 1) % QUEUE_MAX]]

\* rr_swap that also swaps two records with the same arrival_time, whatever their pids.
rr_swap_on_ties(a, b) == a.arrival_time >= b.arrival_time

\* rr_swap comparing the arrival times only.
rr_swap_arrival_only(a, b) == a.arrival_time > b.arrival_time

\* The comparison of the bubble sort of the process array.
rr_swap(a, b) ==
    IF a.arrival_time > b.arrival_time THEN TRUE
    ELSE a.arrival_time = b.arrival_time /\ a.pid > b.pid

\* rr_exchange swapping the sort keys of the two records only.
rr_exchange_keys_only(procs, j) ==
    [procs EXCEPT ![j].pid = procs[j + 1].pid,
                  ![j].arrival_time = procs[j + 1].arrival_time,
                  ![j + 1].pid = procs[j].pid,
                  ![j + 1].arrival_time = procs[j].arrival_time]

\* Process tmp = *a; *a = *b; *b = tmp;   on the records at j and j + 1.
rr_exchange(procs, j) == [procs EXCEPT ![j] = procs[j + 1], ![j + 1] = procs[j]]

\* Bubble sort of ctx->processes by (arrival_time, pid); whole records are swapped.
RECURSIVE rr_bubble(_, _, _, _)
rr_bubble(procs, n, i, j) ==
    IF i >= n - 1 THEN procs
    ELSE IF j >= n - 1 - i THEN rr_bubble(procs, n, i + 1, 0)
    ELSE rr_bubble(IF rr_swap(procs[j], procs[j + 1])
                   THEN rr_exchange(procs, j)
                   ELSE procs,
                   n, i, j + 1)

sort_processes(procs, n) == rr_bubble(procs, n, 0, 0)

\* rr_admit that leaves the in_ready_queue flag alone.
rr_admit_no_flag(st, i) ==
    [q |-> enqueue(st.q, i), in_ready_queue |-> st.in_ready_queue]

\* enqueue(&q, i); in_ready_queue[i] = true;   on st = [q, in_ready_queue]
rr_admit(st, i) ==
    [q |-> enqueue(st.q, i), in_ready_queue |-> [st.in_ready_queue EXCEPT ![i] = TRUE]]

\* Enqueue all processes that arrive at time 0.
RECURSIVE rr_enqueue_initial(_, _, _, _)
rr_enqueue_initial(procs, n, i, st) ==
    IF i >= n THEN st
    ELSE rr_enqueue_initial(procs, n, i + 1,
            IF procs[i].arrival_time = 0 THEN rr_admit(st, i) ELSE st)

\* The idle-jump scan of round_robin: the least arrival_time > now among the
\* processes not completed, INT_MAX if none.
RECURSIVE rr_next_arrival_scan(_, _, _, _, _, _)
rr_next_arrival_scan(procs, done, n, now, i, next_arrival_time) ==
    IF i >= n THEN next_arrival_time
    ELSE rr_next_arrival_scan(procs, done, n, now, i + 1,
            IF /\ ~done[i]
               /\ procs[i].arrival_time > now
               /\ procs[i].arrival_time < next_arrival_time
            THEN procs[i].arrival_time
            ELSE next_arrival_time)

\* rr_find_next_arrival that idles one unit at a time.
rr_find_next_arrival_one_unit(procs, done, n, now) ==
    IF \E i \in 0 .. (n - 1) : ~done[i] /\ procs[i].arrival_time > now
    THEN now + 1 ELSE INT_MAX

rr_find_next_arrival(procs, done, n, now) ==
    rr_next_arrival_scan(procs, done, n, now, 0, INT_MAX)

\* After the idle jump: enqueue every process arriving exactly at the new time.
RECURSIVE rr_enqueue_at(_, _, _, _, _, _)
rr_enqueue_at(procs, done, n, now, i, st) ==
    IF i >= n THEN st
    ELSE rr_enqueue_at(procs, done, n, now, i + 1,
            IF /\ ~done[i]
               /\ procs[i].arrival_time = now
               /\ ~st.in_ready_queue[i]
            THEN rr_admit(st, i) ELSE st)

\* After a slice: enqueue every process that arrived in (start_time, time].
RECURSIVE rr_enqueue_arrived(_, _, _, _, _, _, _)
rr_enqueue_arrived(procs, done, n, start_time, now, i, st) ==
    IF i >= n THEN st
    ELSE rr_enqueue_arrived(procs, done, n, start_time, now, i + 1,
            IF /\ ~done[i]
               /\ ~st.in_ready_queue[i]
               /\ procs[i].arrival_time > start_time
               /\ procs[i].arrival_time <= now
            THEN rr_admit(st, i) ELSE st)

\* rr_exec_time that grants one unit at a time.
rr_exec_time_one_unit(rem, quantum) == 1

\* rr_exec_time that always grants the whole quantum.
rr_exec_time_whole_quantum(rem, quantum) == quantum

\* exec_time = (remaining_time[idx] < time_quantum) ? remaining_time[idx] : time_quantum
rr_exec_time(rem, quantum) == IF rem < quantum THEN rem ELSE quantum

\* rr_after_slice that puts idx back in the queue even when it has completed.
rr_after_slice_always_requeue(procs, done, n, start_time, now, idx, rem, st) ==
    LET arrived == rr_enqueue_arrived(procs, done, n, start_time, now, 0, st) IN
    [q |-> enqueue(arrived.q, idx),
     in_ready_queue |-> [arrived.in_ready_queue EXCEPT ![idx] = TRUE],
     fin |-> rem = 0]

\* rr_after_slice with the re-enqueue of idx before the admission of the arrivals.
rr_after_slice_requeue_first(procs, done, n, start_time, now, idx, rem, st) ==
    IF rem = 0
    THEN LET arrived == rr_enqueue_arrived(procs, done, n, start_time, now, 0, st) IN
         [q |-> arrived.q, in_ready_queue |-> arrived.in_ready_queue, fin |-> TRUE]
    ELSE LET arrived == rr_enqueue_arrived(procs, done, n, start_time, now, 0,
                            rr_admit(st, idx)) IN
         [q |-> arrived.q, in_ready_queue |-> arrived.in_ready_queue, fin |-> FALSE]

\* The end of a slice of idx: first the new arrivals are enqueued, then idx is either
\* marked completed or re-enqueued.  st = [q, in_ready_queue]; the result adds
\* the completion flag of idx.
rr_after_slice(procs, done, n, start_time, now, idx, rem, st) ==
    LET arrived == rr_enqueue_arrived(procs, done, n, start_time, now, 0, st) IN
    IF rem = 0
    THEN [q |-> arrived.q, in_ready_queue |-> arrived.in_ready_queue, fin |-> TRUE]
    ELSE [q |-> enqueue(arrived.q, idx),
          in_ready_queue |-> [arrived.in_ready_queue EXCEPT ![idx] = TRUE],
          fin |-> FALSE]

\* rr_invalid without the test of the quantum.
rr_invalid_count_only(quantum, n) == n <= 0

\* if (time_quantum <= 0 || ctx->num_processes <= 0) return;
rr_invalid(quantum, n) == quantum <= 0 \/ n <= 0

RR_Call ==
    /\ engine = "RR" /\ pc = "call"
    /\ time_quantum' = ctx_time_quantum
    /\ IF rr_invalid(ctx_time_quantum, num_processes)
       THEN /\ pc' = "done"
            /\ UNCHANGED << processes, current_time, completed, rr_vars,
                            trace >>
       ELSE \E sorted \in {sort_processes(reset_process_states(processes), num_processes)} :
            \E st \in {rr_enqueue_initial(sorted, num_processes, 0,
                          [q |-> init_queue,
                           in_ready_queue |-> [i \in Idx |-> FALSE]])} :
            /\ processes' = sorted
            /\ current_time' = 0
            /\ completed' = 0
            /\ remaining_time' = [i \in Idx |-> sorted[i].burst_time]
            /\ is_completed' = [i \in Idx |-> FALSE]
            /\ in_ready_queue' = st.in_ready_queue
            /\ q' = st.q
            /\ pc' = "loop"
            /\ trace' = << >>
    /\ UNCHANGED << ctx_vars, pri_vars >>

\* One iteration of while (completed < n): an idle jump (or the defensive
\* break) when the queue is empty, one slice otherwise.
RR_Iter ==
    /\ engine = "RR" /\ pc = "loop" /\ completed < num_processes
    /\ IF is_empty(q)
       THEN \E next_arrival_time \in
                {rr_find_next_arrival(processes, is_completed, num_processes, current_time)} :
            IF next_arrival_time # INT_MAX
            THEN \E st \in {rr_enqueue_at(processes, is_completed, num_processes,
                                next_arrival_time, 0,
                                [q |-> q, in_ready_queue |-> in_ready_queue])} :
                 /\ current_time' = next_arrival_time
                 /\ q' = st.q
                 /\ in_ready_queue' = st.in_ready_queue
                 /\ pc' = "loop"
                 /\ trace' = Append(trace, Step("idle", 0, current_time, next_arrival_time, FALSE))
                 /\ UNCHANGED << processes, completed, remaining_time, is_completed >>
            ELSE /\ pc' = "exit"
                 /\ trace' = Append(trace, Step("break", 0, current_time, current_time, FALSE))
                 /\ UNCHANGED << processes, current_time, completed, rr_vars >>
       ELSE \E d \in {dequeue(q)} :
            LET idx == d.item
                p == processes[idx]
                exec_time == rr_exec_time(remaining_time[idx], time_quantum)
                start_time == current_time
                now == current_time + exec_time
                rem == remaining_time[idx] - exec_time
            IN \E a \in {rr_after_slice(processes, is_completed, num_processes,
                            start_time, now, idx, rem,
                            [q |-> d.q,
                             in_ready_queue |-> [in_ready_queue EXCEPT ![idx] = FALSE]])} :
               /\ current_time' = now
               /\ remaining_time' = [remaining_time EXCEPT ![idx] = rem]
               /\ q' = a.q
               /\ in_ready_queue' = a.in_ready_queue
               /\ is_completed' = [is_completed EXCEPT ![idx] = IF a.fin THEN TRUE ELSE @]
               /\ completed' = IF a.fin THEN completed + 1 ELSE completed
               /\ processes' = [processes EXCEPT ![idx] =
                                  [p EXCEPT !.completion_time = IF a.fin THEN now ELSE @]]
               /\ trace' = Append(trace, Step("exec", p.pid, start_time, now, a.fin))
               /\ pc' = "loop"
    /\ UNCHANGED << ctx_vars, time_quantum, pri_vars >>

RR_Return ==
    /\ engine = "RR"
    /\ pc \in {"loop", "exit"}
    /\ pc = "loop" => completed >= num_processes
    /\ pc' = "done"
    /\ UNCHANGED << processes, ctx_vars, time_quantum, current_time, completed,
                    pri_vars, rr_vars, trace >>

\* ------------------------------------------------------------------- Init
ProcessRecords ==
    [pid : 1 .. MaxProcs, arrival_time : 0 .. MaxArrival, burst_time : 1 .. MaxBurst,
     priority : 1 .. MaxPriority, remaining_time : {0}, completion_time : {0}]

\* A loaded registry: n >= 1 records with unique pids 1..n in any array order,
\* arrival_time >= 0, burst_time > 0.
Registries(n, prios) ==
    { f \in [0 .. (n - 1) -> ProcessRecords] :
        /\ \A i \in 0 .. (n - 1) : f[i].pid <= n /\ f[i].priority \in prios
        /\ \A i, j \in 0 .. (n - 1) : i # j => f[i].pid # f[j].pid }

InitSRT ==
    /\ engine = "SRT"
    /\ num_processes \in 1 .. MaxProcs
    /\ processes \in Registries(num_processes, {1})
    /\ ctx_time_quantum = 1

InitLocals ==
    /\ pc = "call"
    /\ time_quantum = 0
    /\ current_time = 0
    /\ completed = 0
    /\ highest_priority = 0
    /\ ready_processes = << >>
    /\ ready_count = 0
    /\ r = 0
    /\ t = 0
    /\ run_for = 0
    /\ remaining_time = << >>
    /\ is_completed = << >>
    /\ in_ready_queue = << >>
    /\ q = init_queue
    /\ trace = << >>

InitPRI ==
    /\ engine = "PRI"
    /\ num_processes \in 1 .. MaxProcs
    /\ processes \in Registries(num_processes, 1 .. MaxPriority)
    /\ ctx_time_quantum \in 1 .. MaxQuantum

InitRR ==
    /\ engine = "RR"
    /\ num_processes \in 1 .. MaxProcs
    /\ processes \in Registries(num_processes, {1})
    /\ ctx_time_quantum \in 1 .. MaxQuantum

\* A single call: the caller has nothing else planned.
InitSingle ==
    /\ input = processes
    /\ plan = << >>
    /\ calls = << >>

Init == (InitSRT \/ InitRR \/ InitPRI) /\ InitLocals /\ InitSingle

Next ==
    \/ SRT_Call \/ SRT_Iter \/ SRT_Return
    \/ PRI_Call \/ PRI_Idle \/ PRI_Unit \/ PRI_Return
    \/ RR_Call \/ RR_Iter \/ RR_Return

Spec == Init /\ [][Next]_vars

\* ---------------------------------------------------------------- sessions
Engines == {"SRT", "RR", "PRI"}

NonPositive == {-1, 0}

\* What display_results reports of a run: the completion_time of every pid.
Results ==
    [p \in {processes[i].pid : i \in Idx} |->
        processes[CHOOSE i \in Idx : processes[i].pid = p].completion_time]

\* One call of the caller: the engine, the configured quantum, and whether the
\* registry is loaded anew from the input before the call.
PlannedCall(e, quantum, reload) == [engine |-> e, quantum |-> quantum, reload |-> reload]

\* B alone on the loaded registry; then, on the registry loaded anew, A followed by B.
CrossPlan(A, B, quantum) ==
    << PlannedCall(B, quantum, TRUE), PlannedCall(A, quantum, TRUE),
       PlannedCall(B, quantum, FALSE) >>

\* The priority engine with a non-positive quantum, then with quantum 2, each on
\* the loaded registry.
FallbackPlan(quantum) ==
    << PlannedCall("PRI", quantum, TRUE), PlannedCall("PRI", 2, TRUE) >>

\* One call of round_robin.
InvalidPlan(quantum) == << PlannedCall("RR", quantum, TRUE) >>

IsCross == Len(plan) = 3
IsFallback == Len(plan) = 2
IsInvalid == Len(plan) = 1

SessionRecords ==
    [pid : 1 .. MaxProcs, arrival_time : 0 .. SessionArrival,
     burst_time : 1 .. SessionBurst, priority : 1 .. MaxPriority,
     remaining_time : {0}, completion_time : {0}]

SessionRegistries(n) ==
    { f \in [0 .. (n - 1) -> SessionRecords] :
        /\ \A i \in 0 .. (n - 1) : f[i].pid <= n
        /\ \A i, j \in 0 .. (n - 1) : i # j => f[i].pid # f[j].pid }

InitSession ==
    /\ InitLocals
    /\ \/ /\ num_processes \in 1 .. MaxProcs
          /\ processes \in SessionRegistries(num_processes)
          /\ \/ \E A, B \in Engines : \E quantum \in 1 .. MaxQuantum :
                   plan = CrossPlan(A, B, quantum)
             \/ \E quantum \in NonPositive : plan = FallbackPlan(quantum)
             \/ \E quantum \in NonPositive : plan = InvalidPlan(quantum)
       \/ /\ num_processes \in NonPositive
          /\ processes \in SessionRegistries(2)
          /\ \E quantum \in NonPositive \cup (1 .. MaxQuantum) :
                plan = InvalidPlan(quantum)
    /\ engine = plan[1].engine
    /\ ctx_time_quantum = plan[1].quantum
    /\ input = processes
    /\ calls = << >>

\* The caller after a call has returned: it keeps the results, and either makes
\* the next call of its plan or ends the session.
Session_Advance ==
    /\ pc = "done" /\ Len(calls) < Len(plan)
    /\ calls' = Append(calls, Results)
    /\ IF Len(calls) + 1 < Len(plan)
       THEN LET nxt == plan[Len(calls) + 2] IN
            /\ engine' = nxt.engine
            /\ ctx_time_quantum' = nxt.quantum
            /\ processes' = IF nxt.reload THEN input ELSE processes
            /\ pc' = "call"
            /\ time_quantum' = 0
            /\ current_time' = 0
            /\ completed' = 0
            /\ highest_priority' = 0
            /\ ready_processes' = << >>
            /\ ready_count' = 0
            /\ r' = 0
            /\ t' = 0
            /\ run_for' = 0
            /\ remaining_time' = << >>
            /\ is_completed' = << >>
            /\ in_ready_queue' = << >>
            /\ q' = init_queue
            /\ trace' = << >>
       ELSE /\ pc' = "end"
            /\ UNCHANGED << engine, ctx_time_quantum, processes, time_quantum,
                            current_time, completed, pri_vars, rr_vars, trace >>
    /\ UNCHANGED << num_processes, input, plan >>

SessionNext == Next \/ Session_Advance

SessionSpec == InitSession /\ [][SessionNext]_vars

\* ------------------------------------------------- vocabulary of the claims
Running == pc \in {"loop", "rot"}

Last == trace[Len(trace)]

HasRun == Len(trace) > 0 /\ Last.kind = "exec"

\* The array index of the record of pid.
IndexOf(pid) == CHOOSE i \in Idx : processes[i].pid = pid

\* The remaining time the running engine works with: round_robin keeps it in
\* its local array, the other two engines in the record.
Rem(i) == IF engine = "RR" THEN remaining_time[i] ELSE processes[i].remaining_time

\* The indices whose remaining time goes down in the step.
Executing(i) ==
    IF engine = "RR" THEN remaining_time'[i] < remaining_time[i]
    ELSE processes'[i].remaining_time < processes[i].remaining_time

\* Time units executed for pid in the run so far.
RECURSIVE ExecutedUpTo(_, _)
ExecutedUpTo(pid, k) ==
    IF k = 0 THEN 0
    ELSE ExecutedUpTo(pid, k - 1) +
         (IF trace[k].kind = "exec" /\ trace[k].pid = pid
          THEN trace[k].end - trace[k].start ELSE 0)

Executed(pid) == ExecutedUpTo(pid, Len(trace))

\* Assignments to the completion_time of pid in the run so far.
Writes(pid) == Cardinality({k \in 1 .. Len(trace) : trace[k].pid = pid /\ trace[k].fin})

\* The first step of the run that executes pid (0 if none yet).
FirstRun(pid) ==
    IF \E k \in 1 .. Len(trace) : trace[k].kind = "exec" /\ trace[k].pid = pid
    THEN CHOOSE k \in 1 .. Len(trace) :
            /\ trace[k].kind = "exec" /\ trace[k].pid = pid
            /\ \A m \in 1 .. (k - 1) : ~(trace[m].kind = "exec" /\ trace[m].pid = pid)
    ELSE 0

\* (remaining_time, arrival_time, pid) of a strictly before that of b.
LexBefore(a, b) ==
    \/ a.remaining_time < b.remaining_time
    \/ /\ a.remaining_time = b.remaining_time
       /\ \/ a.arrival_time < b.arrival_time
          \/ a.arrival_time = b.arrival_time /\ a.pid < b.pid

\* ---------------------------------------------------------------------- C1
\* C1: in shortest_remaining_time_first every executed time unit is executed by
\* exactly one process, and that process is, among the processes with
\* arrival_time <= current_time and remaining_time > 0 at the start of the unit,
\* the least one in the lexicographic order (remaining_time, arrival_time, pid).
C1_SrtRunsLexLeast ==
    [][ (engine = "SRT" /\ pc = "loop" /\ processes' # processes) =>
          /\ current_time' = current_time + 1
          /\ Cardinality({i \in Idx : Executing(i)}) = 1
          /\ \A i \in Idx : Executing(i) =>
                /\ processes[i].arrival_time <= current_time
                /\ processes[i].remaining_time > 0
                /\ \A j \in Idx \ {i} :
                      (processes[j].arrival_time <= current_time
                         /\ processes[j].remaining_time > 0)
                      => LexBefore(processes[i], processes[j]) ]_vars

\* A unit has just been executed by a process that won on pid alone: another
\* process, later in pid but earlier in the array, had the same remaining time
\* and the same arrival time at the start of the unit.
C1_Witness ==
    /\ engine = "SRT" /\ HasRun
    /\ \E i, j \in Idx :
          /\ processes[i].pid = Last.pid
          /\ j < i
          /\ processes[j].pid > processes[i].pid
          /\ processes[j].arrival_time = processes[i].arrival_time
          /\ processes[j].arrival_time <= Last.start
          /\ processes[j].remaining_time = processes[i].remaining_time + 1

\* ---------------------------------------------------------------------- C2
\* C2: in priority_preemptive_rr, for every executed time unit [t, t+1), no
\* process with arrival_time <= t and remaining_time > 0 has a priority value
\* strictly smaller than that of the process executing the unit.
C2_PriorityPreemptsAtOnce ==
    [][ (engine = "PRI" /\ Running) =>
          \A i \in Idx : Executing(i) =>
             \A j \in Idx :
                (processes[j].arrival_time <= current_time
                   /\ processes[j].remaining_time > 0)
                => processes[j].priority >= processes[i].priority ]_vars

\* A slice has just been cut short in the middle of its quantum: the process
\* that ran is incomplete, its slice had units left, other members of the group
\* were still to run, and a process of higher priority arrived exactly now.
C2_Witness ==
    /\ engine = "PRI" /\ HasRun /\ pc = "loop"
    /\ t + 1 < run_for
    /\ r + 1 < ready_count
    /\ processes[IndexOf(Last.pid)].remaining_time > 0
    /\ \E j \in Idx :
          /\ processes[j].arrival_time = current_time
          /\ processes[j].priority < highest_priority

\* ---------------------------------------------------------------------- C3
\* The ready queue from front to rear.
QueueLen(qq) ==
    IF is_empty(qq) THEN 0 ELSE ((qq.rear - qq.front + QUEUE_MAX) % QUEUE_MAX) + 1

QueueSeq(qq) ==
    [k \in 1 .. QueueLen(qq) |-> qq.items[(qq.front + k - 1) % QUEUE_MAX]]

Occurs(seq, x) == \E k \in 1 .. Len(seq) : seq[k] = x

\* The processes that a slice from start_time to new_time has to admit.
ArrivedDuring(start_time, new_time) ==
    { i \in Idx : /\ ~is_completed[i]
                  /\ ~in_ready_queue[i]
                  /\ processes[i].arrival_time > start_time
                  /\ processes[i].arrival_time <= new_time }

\* The step is a slice of the process at the front of the queue: afterwards
\* every process that arrived in (start_time, new_time] is queued, the process
\* that ran is queued iff it has time remaining, and then it is the last one.
C3_SliceStep ==
    (engine = "RR" /\ pc = "loop" /\ completed < num_processes /\ ~is_empty(q)) =>
        LET idx == QueueSeq(q)[1]
            after == QueueSeq(q')
        IN /\ \A i \in ArrivedDuring(current_time, current_time') : Occurs(after, i)
           /\ Occurs(after, idx) <=> remaining_time'[idx] > 0
           /\ remaining_time'[idx] > 0 =>
                 /\ after[Len(after)] = idx
                 /\ \A k \in 1 .. (Len(after) - 1) : after[k] # idx

\* Between two consecutive slices of one process, every process that arrived
\* during (or exactly at the end of) the first of them has had a slice.
C3_NextSliceOrder ==
    engine = "RR" =>
      \A k, m \in 1 .. Len(trace) :
        ( /\ k < m
          /\ trace[k].kind = "exec" /\ trace[m].kind = "exec"
          /\ trace[k].pid = trace[m].pid )
        => \A i \in Idx :
              ( /\ processes[i].arrival_time > trace[k].start
                /\ processes[i].arrival_time <= trace[k].end )
              => \E j \in (k + 1) .. (m - 1) :
                    trace[j].kind = "exec" /\ trace[j].pid = processes[i].pid

\* C3: in round_robin, after every slice the processes that arrived during the
\* slice window (start_time, new_time] are in the ready queue ahead of the
\* process that just ran, which is appended behind them only if its remaining
\* time is > 0; hence such a process gets its next slice before the yielding
\* process runs again.
C3_ArrivalsAheadOfYielder == [][ C3_SliceStep /\ C3_NextSliceOrder' ]_vars

\* A process has run two slices, another process arrived exactly at the end of
\* the first of them and a third one strictly inside it.
C3_Witness ==
    /\ engine = "RR"
    /\ \E k, m \in 1 .. Len(trace) :
          /\ k < m
          /\ trace[k].kind = "exec" /\ trace[m].kind = "exec"
          /\ trace[k].pid = trace[m].pid
          /\ \E i, j \in Idx :
                /\ processes[i].arrival_time = trace[k].end
                /\ processes[j].arrival_time > trace[k].start
                /\ processes[j].arrival_time < trace[k].end

\* ---------------------------------------------------------------------- C4
\* The loop of an engine is left only by its condition, with every process
\* complete: the defensive break is not taken.
C4_NoDefensiveBreak ==
    /\ pc # "exit"
    /\ \A k \in 1 .. Len(trace) : trace[k].kind # "break"
    /\ pc = "done" =>
          /\ completed = num_processes
          /\ \A i \in Idx : processes[i].completion_time > 0 /\ Rem(i) = 0

\* A measure that every step of a run has to increase, and the ceiling of the
\* clock: the last arrival plus the total work.
PcRank == CASE pc = "call" -> 0 [] pc \in {"loop", "rot"} -> 1
            [] pc = "exit" -> 2 [] OTHER -> 3

Progress == 4 * current_time + PcRank

RECURSIVE SumBurst(_)
SumBurst(k) == IF k < 0 THEN 0 ELSE SumBurst(k - 1) + processes[k].burst_time

RECURSIVE LastArrival(_)
LastArrival(k) ==
    IF k < 0 THEN 0
    ELSE IF processes[k].arrival_time > LastArrival(k - 1)
         THEN processes[k].arrival_time ELSE LastArrival(k - 1)

Horizon == LastArrival(num_processes - 1) + SumBurst(num_processes - 1)

C4_Bounded ==
    /\ current_time <= Horizon
    /\ pc = "done" \/ ENABLED Next

\* C4: for every valid input each of the three engines terminates (every step
\* increases a bounded measure, and a step is possible until the engine has
\* returned), and it terminates with completed = num_processes, every process
\* having its completion_time; the defensive break is never taken.
C4_TerminatesComplete ==
    [][Progress' > Progress]_vars /\ []C4_Bounded /\ []C4_NoDefensiveBreak

\* An engine has returned after a run with three processes in which the CPU
\* was idle in the middle of the run.
C4_Witness ==
    /\ pc = "done" /\ num_processes = 3
    /\ \E k \in 2 .. Len(trace) : trace[k].kind = "idle"

\* ---------------------------------------------------------------------- C5
\* C5: in every run of each engine, the completion_time of a process is
\* assigned at most once, in the step in which the remaining time of that
\* process reaches 0, with the value of the clock at the end of that step, and
\* it does not change afterwards in the run.
C5_CompletionWrittenOnce ==
    [][ Running =>
          \A i \in Idx :
             LET pid == processes[i].pid IN
             /\ Writes(pid)' <= 1
             /\ ( \/ processes'[i].completion_time # processes[i].completion_time
                  \/ Writes(pid)' # Writes(pid) )
                => /\ Rem(i) > 0 /\ Rem(i)' = 0
                   /\ processes'[i].completion_time = current_time'
             /\ (Rem(i) > 0 /\ Rem(i)' = 0)
                => /\ Writes(pid)' = Writes(pid) + 1
                   /\ processes'[i].completion_time = current_time' ]_vars

\* A run of three processes has returned; one of them completed before the
\* last step of the run and still has the completion_time written then.
C5_Witness ==
    /\ pc = "done" /\ num_processes = 3
    /\ \E k \in 1 .. (Len(trace) - 2) :
          /\ trace[k].fin
          /\ processes[IndexOf(trace[k].pid)].completion_time = trace[k].end

\* ---------------------------------------------------------------------- C6
\* C6: when an engine returns, every process satisfies
\* completion_time >= arrival_time + burst_time.
C6_CompletionNotEarly ==
    pc = "done" =>
       \A i \in Idx :
          processes[i].completion_time
             >= processes[i].arrival_time + processes[i].burst_time

\* An engine has returned; one process finished at the earliest possible time
\* and another one had to wait.
C6_Witness ==
    /\ pc = "done"
    /\ \E i, j \in Idx :
          /\ processes[i].completion_time
                = processes[i].arrival_time + processes[i].burst_time
          /\ processes[j].completion_time
                > processes[j].arrival_time + processes[j].burst_time

\* ---------------------------------------------------------------------- C7
\* Time units executed in the run so far, over all processes.
RECURSIVE TotalExecutedUpTo(_)
TotalExecutedUpTo(k) ==
    IF k = 0 THEN 0
    ELSE TotalExecutedUpTo(k - 1) +
         (IF trace[k].kind = "exec" THEN trace[k].end - trace[k].start ELSE 0)

\* C7: conservation of work.  No process is executed for more than its
\* burst_time nor after its completion; when the engine returns every process
\* has been executed for exactly its burst_time, so the executed units of the
\* run add up to the sum of all burst_time.
C7_WorkConserved ==
    pc # "call" =>
       /\ \A i \in Idx : Executed(processes[i].pid) <= processes[i].burst_time
       /\ \A k, m \in 1 .. Len(trace) :
             (k < m /\ trace[k].fin) =>
                ~(trace[m].kind = "exec" /\ trace[m].pid = trace[k].pid)
       /\ pc = "done" =>
             /\ \A i \in Idx : Executed(processes[i].pid) = processes[i].burst_time
             /\ TotalExecutedUpTo(Len(trace)) = SumBurst(num_processes - 1)

\* An engine has returned after a run in which a process of burst_time 3 was
\* executed in three separate pieces.
C7_Witness ==
    /\ pc = "done"
    /\ \E i \in Idx :
          /\ processes[i].burst_time = 3
          /\ \E a, b, c \in 1 .. Len(trace) :
                /\ a + 1 < b /\ b + 1 < c
                /\ trace[a].pid = processes[i].pid
                /\ trace[b].pid = processes[i].pid
                /\ trace[c].pid = processes[i].pid
                /\ trace[a + 1].pid # processes[i].pid
                /\ trace[b + 1].pid # processes[i].pid

\* ---------------------------------------------------------------------- C8
\* C8 as stated: when any of the three engines returns, round_robin included,
\* the remaining_time field of every process record is exactly 0.
C8_FieldZeroAtReturn ==
    pc = "done" => \A i \in Idx : processes[i].remaining_time = 0

\* C8 amended: shortest_remaining_time_first and priority_preemptive_rr
\* decrement the remaining_time field of the record by one per executed unit and
\* leave it exactly 0 for every process at return; round_robin counts down in
\* its local remaining_time[] array, every entry of which is exactly 0 at
\* return, and leaves the field of the record at the value it has after
\* reset_process_states, burst_time.
C8_RemainingCountsDown ==
    pc # "call" =>
       \A i \in Idx :
          LET left == processes[i].burst_time - Executed(processes[i].pid) IN
          IF engine = "RR"
          THEN /\ remaining_time[i] = left
               /\ processes[i].remaining_time = processes[i].burst_time
               /\ pc = "done" => remaining_time[i] = 0
          ELSE /\ processes[i].remaining_time = left
               /\ pc = "done" => processes[i].remaining_time = 0

\* round_robin has returned after a run of three processes with all of its
\* local counters at 0 and none of the records' fields touched.
C8_Witness ==
    /\ engine = "RR" /\ pc = "done" /\ num_processes = 3
    /\ \A i \in Idx : remaining_time[i] = 0 /\ processes[i].remaining_time > 0

\* ---------------------------------------------------------------------- C9
\* C9: the virtual clock never decreases, and every iteration of a main loop
\* (an SRT unit, a unit of the priority engine, an RR slice, an idle jump)
\* strictly increases it.
C9_ClockMonotonic ==
    [][ /\ current_time' >= current_time
        /\ (Running /\ pc' # "done") => current_time' > current_time ]_vars

\* The clock has jumped over an idle gap of two units and a process has been
\* executed after the jump.
C9_Witness ==
    /\ HasRun
    /\ \E k \in 1 .. Len(trace) :
          trace[k].kind = "idle" /\ trace[k].end = trace[k].start + 2

\* --------------------------------------------------------------------- C10
\* The process that gets a time unit of shortest_remaining_time_first has the
\* lowest pid among the ready processes that agree with it on the given keys.
SrtTieGoesToLowerPid(SameKeys(_, _)) ==
    (engine = "SRT" /\ Running) =>
       \A i \in Idx : Executing(i) =>
          \A j \in Idx :
             ( /\ processes[j].arrival_time <= current_time
               /\ processes[j].remaining_time > 0
               /\ SameKeys(processes[i], processes[j]) )
             => processes[i].pid <= processes[j].pid

SameRemaining(a, b) == a.remaining_time = b.remaining_time

SameRemainingAndArrival(a, b) ==
    a.remaining_time = b.remaining_time /\ a.arrival_time = b.arrival_time

\* In priority_preemptive_rr (same priority and arrival_time) and in
\* round_robin (same arrival_time) the process with the lower pid is given the
\* CPU before the other.
LowerPidRunsFirst ==
    engine \in {"PRI", "RR"} =>
       \A a, b \in Idx :
          ( /\ processes[a].pid < processes[b].pid
            /\ processes[a].arrival_time = processes[b].arrival_time
            /\ engine = "PRI" => processes[a].priority = processes[b].priority
            /\ FirstRun(processes[b].pid) # 0 )
          => /\ FirstRun(processes[a].pid) # 0
             /\ FirstRun(processes[a].pid) < FirstRun(processes[b].pid)

\* C10 as stated: two arrived, incomplete processes with identical
\* remaining_time at a decision of shortest_remaining_time_first, or with
\* identical priority and arrival_time in priority_preemptive_rr, or with
\* identical arrival_time in round_robin: the one with the lower pid is
\* scheduled first.
C10_LowerPidFirst ==
    [][ SrtTieGoesToLowerPid(SameRemaining) /\ LowerPidRunsFirst' ]_vars

\* C10 amended: in shortest_remaining_time_first the lower pid decides only
\* between processes with identical remaining_time and identical arrival_time
\* (with identical remaining_time the earlier arrival goes first, whatever the
\* pids); the statements about the other two engines stand.
C10_LowerPidFirstOnFullTie ==
    [][ SrtTieGoesToLowerPid(SameRemainingAndArrival) /\ LowerPidRunsFirst' ]_vars

\* Two processes of the priority engine with the same priority and arrival
\* time have both run, the one with the lower pid first although its record
\* comes later in the array.
C10_Witness ==
    /\ engine = "PRI"
    /\ \E a, b \in Idx :
          /\ b < a
          /\ processes[a].pid < processes[b].pid
          /\ processes[a].arrival_time = processes[b].arrival_time
          /\ processes[a].priority = processes[b].priority
          /\ FirstRun(processes[b].pid) # 0
          /\ FirstRun(processes[a].pid) # 0

\* --------------------------------------------------------------------- C11
\* C11: idempotent re-run.  When an engine is run a second time on the registry
\* its first run left behind (record order included), every pid gets the same
\* completion_time as in the first run.
C11_RerunSameResults ==
    (IsCross /\ plan[2].engine = plan[3].engine /\ Len(calls) = 3)
       => calls[3] = calls[2]

\* round_robin has been run twice in a row on a registry of three processes
\* whose records its first run reordered.
C11_Witness ==
    /\ IsCross /\ plan[2].engine = "RR" /\ plan[3].engine = "RR"
    /\ Len(calls) = 3 /\ num_processes = 3
    /\ \E i \in Idx : processes[i].pid # input[i].pid
    /\ \E p, pp \in DOMAIN calls[3] : calls[3][p] # calls[3][pp]

\* --------------------------------------------------------------------- C12
\* C12: no cross-contamination between policies.  For every ordered pair (A, B)
\* of engines, B run on the registry left behind by a run of A reports for every
\* pid the completion_time that B alone reports on the registry as loaded; the
\* reordering of the process array by round_robin's sort makes no difference to
\* a later run.
C12_NoCrossContamination ==
    (IsCross /\ Len(calls) = 3) => calls[3] = calls[1]

\* The priority engine has run after round_robin on a registry of three
\* processes, two of them with the same priority and arrival_time, whose
\* records round_robin reordered.
C12_Witness ==
    /\ IsCross /\ plan[2].engine = "RR" /\ plan[3].engine = "PRI"
    /\ Len(calls) = 3 /\ num_processes = 3
    /\ \E i \in Idx : processes[i].pid # input[i].pid
    /\ \E i, j \in Idx :
          /\ i # j
          /\ processes[i].priority = processes[j].priority
          /\ processes[i].arrival_time = processes[j].arrival_time

\* --------------------------------------------------------------------- C13
\* C13: round_robin called with time_quantum <= 0 or with num_processes <= 0
\* is a no-op: it returns at once, without a scheduling step and without
\* changing any process record (order, remaining_time, completion_time).
C13_RoundRobinNoOp ==
    /\ [][ ( /\ engine = "RR" /\ pc = "call"
             /\ (ctx_time_quantum <= 0 \/ num_processes <= 0) )
           => /\ pc' = "done"
              /\ UNCHANGED << processes, current_time, completed, rr_vars, trace >>
        ]_vars
    /\ []( ( /\ engine = "RR" /\ pc \in {"done", "end"}
             /\ (ctx_time_quantum <= 0 \/ num_processes <= 0) )
           => processes = input /\ trace = << >> /\ q = init_queue )

\* round_robin has returned from a call with a non-positive quantum on three
\* records that are not in the order of its sort and whose remaining_time is
\* not their burst_time.
C13_Witness ==
    /\ engine = "RR" /\ pc = "done"
    /\ ctx_time_quantum <= 0 /\ num_processes = 3
    /\ processes[0].arrival_time > processes[1].arrival_time
    /\ \A i \in Idx : processes[i].remaining_time # processes[i].burst_time

\* --------------------------------------------------------------------- C14
\* C14: priority_preemptive_rr with a configured time_quantum <= 0 behaves as
\* with time_quantum = 2: it works with a quantum of 2, gives every process the
\* completion_time that a run configured with 2 gives it, and leaves the
\* configured time_quantum of the context as it is.
C14_QuantumFallback ==
    /\ [][ (engine = "PRI" /\ pc \notin {"done", "end"})
             => ctx_time_quantum' = ctx_time_quantum ]_vars
    /\ []( (engine = "PRI" /\ Running /\ ctx_time_quantum <= 0) => time_quantum = 2 )
    /\ []( (IsFallback /\ Len(calls) = 2) => calls[2] = calls[1] )

\* Both runs have returned on a registry of three processes in which two
\* processes of burst_time 2 share priority and arrival_time, so that a quantum
\* of 1 would have given other results.
C14_Witness ==
    /\ IsFallback /\ Len(calls) = 2 /\ num_processes = 3
    /\ \E i, j \in Idx :
          /\ i # j
          /\ processes[i].priority = processes[j].priority
          /\ processes[i].arrival_time = processes[j].arrival_time
          /\ processes[i].burst_time = 2 /\ processes[j].burst_time = 2

\* --------------------------------------------------------------------- C15
\* C15: in round_robin every slice is one bulk step of exactly
\* min(remaining time of the dequeued process, time_quantum) units, at least 1:
\* the clock advances by that amount and the remaining time of the process
\* drops by it; if it reaches 0 the process is marked completed with
\* completion_time equal to the clock at the end of the slice, and it is never
\* in the queue again.
C15_BulkSlice ==
    /\ [][ (engine = "RR" /\ pc = "loop" /\ completed < num_processes /\ ~is_empty(q))
           => LET idx == QueueSeq(q)[1]
                  len == IF remaining_time[idx] < time_quantum
                         THEN remaining_time[idx] ELSE time_quantum
              IN /\ len >= 1
                 /\ current_time' = current_time + len
                 /\ remaining_time' = [remaining_time EXCEPT ![idx] = @ - len]
                 /\ trace' = Append(trace,
                        Step("exec", processes[idx].pid, current_time,
                             current_time + len, remaining_time[idx] = len))
                 /\ IF remaining_time[idx] = len
                    THEN /\ is_completed'[idx]
                         /\ completed' = completed + 1
                         /\ processes'[idx].completion_time = current_time'
                         /\ ~Occurs(QueueSeq(q'), idx)
                    ELSE /\ ~is_completed'[idx]
                         /\ completed' = completed
                         /\ processes' = processes ]_vars
    /\ []( (engine = "RR" /\ Running) =>
              \A i \in Idx : is_completed[i] =>
                 /\ remaining_time[i] = 0
                 /\ ~in_ready_queue[i]
                 /\ ~Occurs(QueueSeq(q), i) )

\* round_robin has run a slice of a whole quantum of 2 that left its process
\* incomplete and, later, the slice of 1 unit that completed it, and has gone on.
C15_Witness ==
    /\ engine = "RR" /\ num_processes = 3
    /\ \E k, m \in 1 .. (Len(trace) - 1) :
          /\ k < m
          /\ trace[k].pid = trace[m].pid
          /\ trace[k].end = trace[k].start + 2 /\ ~trace[k].fin
          /\ trace[m].end = trace[m].start + 1 /\ trace[m].fin

\* --------------------------------------------------------------------- C16
\* Whether nobody can be given the CPU at the top of the main loop.
NoneReady ==
    IF engine = "RR" THEN is_empty(q)
    ELSE \A i \in Idx : ~(processes[i].arrival_time <= current_time /\ Rem(i) > 0)

\* The arrival times still ahead of the clock, of incomplete processes.
FutureArrivals ==
    { processes[i].arrival_time :
         i \in { j \in Idx : Rem(j) > 0 /\ processes[j].arrival_time > current_time } }

\* C16: idle-jump.  In each engine, when no process is ready while some process
\* is incomplete, the next step sets the clock, in one step, to the least
\* arrival_time above the current clock among the incomplete processes; in
\* round_robin the same step enqueues every incomplete process not yet queued
\* whose arrival_time is the new clock.
C16_IdleJump ==
    [][ (pc = "loop" /\ completed < num_processes /\ NoneReady)
        => /\ FutureArrivals # {}
           /\ current_time' \in FutureArrivals
           /\ \A a \in FutureArrivals : current_time' <= a
           /\ trace' = Append(trace, Step("idle", 0, current_time, current_time', FALSE))
           /\ processes' = processes /\ completed' = completed
           /\ engine = "RR" =>
                 \A i \in Idx :
                    Occurs(QueueSeq(q'), i) <=>
                       ( /\ ~is_completed[i] /\ ~in_ready_queue[i]
                         /\ processes[i].arrival_time = current_time' ) ]_vars

\* round_robin has just jumped from 0 to 1, where two processes arrive together,
\* while the third arrives only at 2.
C16_Witness ==
    /\ engine = "RR" /\ num_processes = 3
    /\ Len(trace) > 0 /\ Last.kind = "idle" /\ Last.start = 0 /\ Last.end = 1
    /\ QueueLen(q) = 2
    /\ \E i \in Idx : processes[i].arrival_time = 2

\* --------------------------------------------------------------------- C17
\* C17: in round_robin the ready queue never holds an index twice and never
\* holds a completed process, so that its length never exceeds the number of
\* incomplete processes; it is never full, and no process is dropped: a process
\* is flagged as queued exactly when it is in the queue.
C17_QueueSound ==
    (engine = "RR" /\ pc \in {"loop", "exit", "done"} /\ ~rr_invalid(ctx_time_quantum, num_processes)) =>
       LET seq == QueueSeq(q) IN
       /\ \A k, m \in 1 .. Len(seq) : k # m => seq[k] # seq[m]
       /\ \A k \in 1 .. Len(seq) : seq[k] \in Idx /\ ~is_completed[seq[k]]
       /\ Len(seq) <= Cardinality({i \in Idx : ~is_completed[i]})
       /\ Len(seq) < QUEUE_MAX
       /\ (q.rear + 1) % QUEUE_MAX # q.front
       /\ \A i \in Idx : in_ready_queue[i] <=> Occurs(seq, i)

\* All three processes are in the queue, one of them for the second time, after
\* a slice that did not complete it.
C17_Witness ==
    /\ engine = "RR" /\ pc = "loop"
    /\ QueueLen(q) = 3
    /\ HasRun /\ ~Last.fin
    /\ processes[QueueSeq(q)[3]].pid = Last.pid

\* --------------------------------------------------------------------- C18
\* The next executed unit of the priority engine is the first unit of a slice.
AtSliceStart ==
    /\ engine = "PRI"
    /\ \/ pc = "loop" /\ completed < num_processes /\ ~NoneReady
       \/ pc = "rot" /\ t = 0

\* The last time_quantum steps of the run are units of pid.
RanWholeQuantum(pid) ==
    /\ Len(trace) >= time_quantum
    /\ \A k \in 0 .. (time_quantum - 1) :
          LET e == trace[Len(trace) - k] IN e.kind = "exec" /\ e.pid = pid

\* The arrived, incomplete processes of the best priority among them.
ReadyGroup ==
    { i \in Idx :
        /\ is_ready(processes[i], current_time)
        /\ \A j \in Idx : is_ready(processes[j], current_time)
                            => processes[i].priority <= processes[j].priority }

\* C18: round robin within a priority level.  Whenever a process has run a full
\* time_quantum without completing and, at that instant, another process of
\* the same priority has arrived and is incomplete while no process of higher
\* priority is ready, the next slice goes to a different process of that
\* priority, not to the same process again.
C18_QuantumExpiryYields ==
    [][ ( /\ AtSliceStart /\ HasRun /\ ~Last.fin
          /\ RanWholeQuantum(Last.pid)
          /\ IndexOf(Last.pid) \in ReadyGroup
          /\ ReadyGroup # {IndexOf(Last.pid)} )
        => /\ trace' = Append(trace, trace'[Len(trace')])
           /\ trace'[Len(trace')].kind = "exec"
           /\ trace'[Len(trace')].pid # Last.pid
           /\ IndexOf(trace'[Len(trace')].pid) \in ReadyGroup ]_vars

\* --------------------------------------------------------------------- C19
\* The incomplete members of the group the priority engine is rotating over.
GroupInUse(procs, ready, count) ==
    { i \in { ready[k] : k \in 0 .. (count - 1) } : procs[i].remaining_time > 0 }

\* C19: in priority_preemptive_rr the highest priority and the ready group are
\* recomputed after every preemption and after every quantum expiry: at the
\* start of every slice, the group the slice's process is taken from is the set
\* of all arrived, incomplete processes of the least priority value among them.
C19_GroupFreshAtEverySlice ==
    [][ AtSliceStart
        => GroupInUse(processes, ready_processes', ready_count') = ReadyGroup ]_vars

\* --------------------------------------------------------------------- C20
\* The rotation in progress: the group is in strictly ascending pid order, the
\* slice of its member r has t of its min(remaining_time, time_quantum) units
\* behind it, and the members after r have not run yet.
RotationInOrder ==
    (engine = "PRI" /\ pc = "rot") =>
       /\ r \in 0 .. (ready_count - 1)
       /\ \A k, m \in 0 .. (ready_count - 1) :
             k < m => processes[ready_processes[k]].pid < processes[ready_processes[m]].pid
       /\ t >= 0 /\ t < run_for
       /\ run_for = LET rem == processes[ready_processes[r]].remaining_time + t
                    IN IF rem < time_quantum THEN rem ELSE time_quantum
       /\ \A k \in (r + 1) .. (ready_count - 1) :
             processes[ready_processes[k]].remaining_time > 0
       /\ \A k \in 1 .. t : trace[Len(trace) + 1 - k].pid = processes[ready_processes[r]].pid

\* One unit of a rotation, and where the rotation stands after it.
RotationStep ==
    (engine = "PRI" /\ (pc = "rot" \/ (pc = "loop" /\ completed < num_processes /\ ~NoneReady))) =>
       LET rr == IF pc = "loop" THEN 0 ELSE r
           tt == IF pc = "loop" THEN 0 ELSE t
           idx == ready_processes'[rr]
           len == IF processes[idx].remaining_time + tt < time_quantum
                  THEN processes[idx].remaining_time + tt ELSE time_quantum
           interrupted ==
               \E j \in Idx : /\ processes'[j].arrival_time = current_time'
                              /\ processes'[j].remaining_time > 0
                              /\ processes'[j].priority < processes[idx].priority
       IN /\ pc = "loop" =>
                {ready_processes'[k] : k \in 0 .. (ready_count' - 1)} = ReadyGroup
          /\ pc = "rot" =>
                ready_processes' = ready_processes /\ ready_count' = ready_count
          /\ current_time' = current_time + 1
          /\ trace' = Append(trace,
                 Step("exec", processes[idx].pid, current_time, current_time + 1,
                      processes[idx].remaining_time = 1))
          /\ \A i \in Idx : Executing(i) <=> i = idx
          /\ IF interrupted THEN pc' = "loop"
             ELSE IF tt + 1 < len
                  THEN pc' = "rot" /\ r' = rr /\ t' = tt + 1
                  ELSE \* the slice is over after exactly len units
                       IF rr + 1 < ready_count'
                       THEN pc' = "rot" /\ r' = rr + 1 /\ t' = 0
                       ELSE pc' = "loop"

\* C20: in priority_preemptive_rr, within one rotation over a ready group that
\* no higher-priority arrival interrupts, every member of the group runs exactly
\* one slice of min(remaining_time, time_quantum) units, the members run in
\* strictly ascending pid order whatever their positions in the process array,
\* and when a member completes in its slice the next member starts at that
\* same clock value.
C20_RotationOnePassAscending ==
    [][ RotationStep /\ RotationInOrder' ]_vars

\* A rotation over three members whose records are in descending pid order has
\* reached its third member right after the second one completed in a slice of
\* two units; the first member was left incomplete by its slice.
C20_Witness ==
    /\ engine = "PRI" /\ pc = "rot" /\ r = 2 /\ t = 0 /\ ready_count = 3
    /\ time_quantum = 2
    /\ processes[0].pid > processes[1].pid /\ processes[1].pid > processes[2].pid
    /\ processes[ready_processes[0]].remaining_time > 0
    /\ Len(trace) >= 4
    /\ Last.fin /\ Last.end = current_time
    /\ trace[Len(trace) - 1].pid = Last.pid
    /\ trace[Len(trace) - 2].pid = processes[ready_processes[0]].pid

\* --------------------------------------------------------------------- C21
\* C21: in shortest_remaining_time_first a running process is preempted only
\* by a shorter new arrival.  If P executes the unit [t, t+1) and is incomplete
\* at t+1, the unit [t+1, t+2) is executed by a different process Q only if Q
\* arrives exactly at t+1 and its remaining time, which is its whole
\* burst_time, is strictly smaller than the remaining time of P at t+1; an
\* arrival with a burst equal to the remaining time of P does not preempt.
C21_PreemptedOnlyByShorterArrival ==
    engine = "SRT" =>
      \A k \in 1 .. (Len(trace) - 1) :
        ( /\ trace[k].kind = "exec" /\ ~trace[k].fin
          /\ trace[k + 1].kind = "exec"
          /\ trace[k + 1].pid # trace[k].pid )
        => LET P == processes[IndexOf(trace[k].pid)]
               Q == processes[IndexOf(trace[k + 1].pid)]
           IN /\ trace[k].end = trace[k].start + 1
              /\ trace[k + 1].start = trace[k].end
              /\ Q.arrival_time = trace[k].end
              /\ ExecutedUpTo(Q.pid, k) = 0
              /\ Q.burst_time < P.burst_time - ExecutedUpTo(P.pid, k)

\* A run of three processes has returned in which an arrival preempted the
\* running process, which went on later with the units it had left.
C21_Witness ==
    /\ engine = "SRT" /\ pc = "done" /\ num_processes = 3
    /\ \E k \in 1 .. (Len(trace) - 1) :
          /\ trace[k].kind = "exec" /\ ~trace[k].fin
          /\ trace[k + 1].kind = "exec"
          /\ trace[k + 1].pid # trace[k].pid
          /\ processes[IndexOf(trace[k].pid)].burst_time
                - ExecutedUpTo(trace[k].pid, k) >= 2

\* --------------------------------------------------------------------- C22
\* The number of consecutive units up to step k that went to the process of
\* step k.
RECURSIVE UnitsInARow(_)
UnitsInARow(k) ==
    IF k > 1 /\ trace[k - 1].kind = "exec" /\ trace[k - 1].pid = trace[k].pid
    THEN UnitsInARow(k - 1) + 1
    ELSE 1

PriorityOf(pid) == processes[IndexOf(pid)].priority

\* Step k is a unit of a process that is cut short in the middle of its slice:
\* the process is incomplete, its units in a row do not fill whole quanta, and
\* the next unit goes to a process of strictly higher priority.
PreemptedMidSlice(k) ==
    /\ k < Len(trace)
    /\ trace[k].kind = "exec" /\ ~trace[k].fin
    /\ UnitsInARow(k) % time_quantum # 0
    /\ trace[k + 1].kind = "exec"
    /\ PriorityOf(trace[k + 1].pid) < PriorityOf(trace[k].pid)

\* C22: in priority_preemptive_rr a process preempted in the middle of its
\* slice by a higher-priority arrival continues when its priority is highest
\* again: the next unit executed at its priority level is executed by the
\* preempted process itself, not by another process of the same priority.
C22_PreemptedContinuesFirst ==
    engine = "PRI" =>
      \A k, m \in 1 .. Len(trace) :
        ( /\ PreemptedMidSlice(k)
          /\ k < m
          /\ trace[m].kind = "exec"
          /\ PriorityOf(trace[m].pid) = PriorityOf(trace[k].pid)
          /\ \A j \in (k + 1) .. (m - 1) :
                ~(trace[j].kind = "exec"
                    /\ PriorityOf(trace[j].pid) = PriorityOf(trace[k].pid)) )
        => trace[m].pid = trace[k].pid

\* --------------------------------------------------------------------- C23
\* Every process of the loaded registry has the same priority.
SamePriority == \A i, j \in Idx : input[i].priority = input[j].priority

\* C23: same-priority processes round-robin.  On every registry in which all
\* processes have the same priority, priority_preemptive_rr with quantum q > 0
\* reports for every pid the completion_time that round_robin reports with the
\* same quantum.
C23_SamePriorityIsRoundRobin ==
    ( /\ IsCross /\ plan[1].engine = "PRI" /\ plan[2].engine = "RR"
      /\ Len(calls) >= 2 /\ SamePriority )
    => calls[2] = calls[1]

\* --------------------------------------------------------------------- C24
\* The step is an idle-jump of the running engine.
IdleJump ==
    /\ Running
    /\ Len(trace') = Len(trace) + 1
    /\ trace'[Len(trace')].kind = "idle"

\* No process with time remaining arrives before the clock value now.
NobodyWaitingBefore(now) ==
    \A i \in Idx : Rem(i) > 0 => processes[i].arrival_time >= now

\* The largest completion_time of a reported result.
Makespan(res) == CHOOSE m \in {res[p] : p \in DOMAIN res} : \A p \in DOMAIN res : res[p] <= m

C24_IdleOnlyWhenNothingToRun ==
    /\ IdleJump => NobodyWaitingBefore(current_time')
    /\ (Running /\ current_time' > current_time /\ ~IdleJump)
          => \E i \in Idx : Executing(i)

C24_SameMakespan ==
    (IsCross /\ Len(calls) >= 2) => Makespan(calls[1]) = Makespan(calls[2])

\* C24: all three engines are work-conserving: the clock is never advanced by
\* an idle-jump while (or past the moment when) some process has arrived and is
\* incomplete, and every other advance of the clock executes a process.
\* Consequently, on the same registry and with the same quantum, the largest
\* completion_time is the same under any two of the three engines.
C24_WorkConserving ==
    [][C24_IdleOnlyWhenNothingToRun]_vars /\ []C24_SameMakespan

\* Two different engines have run on the same registry of three processes,
\* none of which arrives at time 0, and report different completion times.
C24_Witness ==
    /\ IsCross /\ Len(calls) >= 2 /\ num_processes = 3
    /\ plan[1].engine # plan[2].engine
    /\ calls[1] # calls[2]
    /\ \A i \in Idx : input[i].arrival_time > 0

\* --------------------------------------------------------------------- C25
\* The indices held by the ready queue.
QueueSet == {QueueSeq(q)[k] : k \in 1 .. QueueLen(q)}

\* The processes that have arrived by the clock and are not completed.
ArrivedIncomplete ==
    {i \in Idx : processes[i].arrival_time <= current_time /\ ~is_completed[i]}

\* C25: in round_robin, at the top of every iteration of the main loop, the
\* ready queue holds exactly the indices of the processes with
\* arrival_time <= clock that are not completed, and in_ready_queue[i] is true
\* exactly when i is in the queue; in particular the queue is empty only when
\* no arrived process is incomplete.
C25_QueueIsArrivedIncomplete ==
    (engine = "RR" /\ pc = "loop") =>
       /\ QueueSet = ArrivedIncomplete
       /\ \A i \in Idx : in_ready_queue[i] <=> i \in QueueSet
       /\ is_empty(q) => ArrivedIncomplete = {}

\* The top of an iteration, after a slice, with two processes queued, one
\* completed and the queue not in index order.
C25_Witness ==
    /\ engine = "RR" /\ pc = "loop" /\ HasRun
    /\ QueueLen(q) = 2
    /\ QueueSeq(q)[1] > QueueSeq(q)[2]
    /\ \E i \in Idx : is_completed[i]

\* --------------------------------------------------------------------- C26
\* The longest wait of round_robin: a quantum for every other process.
WaitBound == (num_processes - 1) * time_quantum

\* Steps k < m are two slices of one process with no slice of it in between.
ConsecutiveSlices(k, m) ==
    /\ k < m
    /\ trace[k].kind = "exec" /\ trace[m].kind = "exec"
    /\ trace[k].pid = trace[m].pid
    /\ \A j \in (k + 1) .. (m - 1) :
          ~(trace[j].kind = "exec" /\ trace[j].pid = trace[k].pid)

\* C26: bounded waiting in round_robin.  With n processes and quantum q, every
\* process starts its first slice at most (n-1)*q time units after its
\* arrival_time, and at most (n-1)*q time units pass between the end of one
\* slice of an incomplete process and the start of its next slice.
C26_BoundedWaiting ==
    (engine = "RR" /\ pc # "call") =>
       /\ \A i \in Idx :
             /\ FirstRun(processes[i].pid) # 0 =>
                   trace[FirstRun(processes[i].pid)].start
                      <= processes[i].arrival_time + WaitBound
             /\ (FirstRun(processes[i].pid) = 0 /\ ~is_completed[i]) =>
                   current_time <= processes[i].arrival_time + WaitBound
       /\ \A k, m \in 1 .. Len(trace) :
             ConsecutiveSlices(k, m) => trace[m].start <= trace[k].end + WaitBound

\* A run of three processes with quantum 2 in which one process waited the
\* full bound for its first slice and another the full bound between two of
\* its slices.
C26_Witness ==
    /\ engine = "RR" /\ num_processes = 3 /\ time_quantum = 2
    /\ \E i \in Idx :
          /\ FirstRun(processes[i].pid) # 0
          /\ trace[FirstRun(processes[i].pid)].start
                = processes[i].arrival_time + WaitBound
    /\ \E k, m \in 1 .. Len(trace) :
          ConsecutiveSlices(k, m) /\ trace[m].start = trace[k].end + WaitBound

\* --------------------------------------------------------------------- C27
\* Record a comes before record b in (arrival_time, pid) order.
ArrivalPidBefore(a, b) ==
    \/ a.arrival_time < b.arrival_time
    \/ a.arrival_time = b.arrival_time /\ a.pid < b.pid

\* C27: in round_robin, processes receive their first slice in
\* (arrival_time, pid) order: if A has a smaller arrival_time than B, or the
\* same arrival_time and a smaller pid, the first slice of A starts before the
\* first slice of B, whatever the order of the records in the input registry.
C27_FirstSlicesInArrivalPidOrder ==
    engine = "RR" =>
      \A i, j \in Idx :
         LET A == processes[i]
             B == processes[j]
         IN (ArrivalPidBefore(A, B) /\ FirstRun(B.pid) # 0)
            => /\ FirstRun(A.pid) # 0
               /\ FirstRun(A.pid) < FirstRun(B.pid)
               /\ trace[FirstRun(A.pid)].start < trace[FirstRun(B.pid)].start

\* round_robin has returned from a run of three processes that were loaded in
\* descending pid order, two of them with the same arrival_time and the third
\* one, of the lowest pid, arriving later and running after them.
C27_Witness ==
    /\ engine = "RR" /\ pc = "done" /\ num_processes = 3
    /\ input[0].pid > input[1].pid /\ input[1].pid > input[2].pid
    /\ \E i, j, k \in Idx :
          /\ processes[i].arrival_time = processes[j].arrival_time
          /\ processes[i].pid < processes[j].pid
          /\ processes[k].arrival_time > processes[j].arrival_time
          /\ processes[k].pid < processes[i].pid
          /\ FirstRun(processes[j].pid) < FirstRun(processes[k].pid)

\* --------------------------------------------------------------------- C28
\* No process needs more than one quantum.
QuantumCoversEveryBurst == \A i \in Idx : processes[i].burst_time <= time_quantum

\* The completion_time of the process just before process i in
\* (arrival_time, pid) order, 0 for the first one.
PreviousCompletion(i) ==
    LET before == {j \in Idx : ArrivalPidBefore(processes[j], processes[i])}
    IN IF before = {} THEN 0
       ELSE processes[CHOOSE j \in before :
                         \A h \in before \ {j} :
                            ArrivalPidBefore(processes[h], processes[j])].completion_time

LaterOf(a, b) == IF a > b THEN a ELSE b

\* C28: round_robin with a time_quantum greater than or equal to every
\* burst_time is first-come-first-served: every process runs in one
\* uninterrupted slice, the processes run in (arrival_time, pid) order, and each
\* completion_time is max(arrival_time, completion_time of the previous process
\* in that order) + burst_time.
C28_LargeQuantumIsFcfs ==
    (engine = "RR" /\ pc # "call" /\ QuantumCoversEveryBurst) =>
       /\ \A k \in 1 .. Len(trace) :
             trace[k].kind = "exec" =>
                /\ trace[k].fin
                /\ trace[k].end - trace[k].start
                      = processes[IndexOf(trace[k].pid)].burst_time
                /\ \A m \in (k + 1) .. Len(trace) :
                      trace[m].kind = "exec" =>
                         ArrivalPidBefore(processes[IndexOf(trace[k].pid)],
                                          processes[IndexOf(trace[m].pid)])
       /\ pc = "done" =>
             \A i \in Idx :
                processes[i].completion_time
                   = LaterOf(processes[i].arrival_time, PreviousCompletion(i))
                        + processes[i].burst_time

\* round_robin has returned from a run of three processes, each within one
\* quantum, one of them using the whole quantum; one process had to wait for
\* its predecessor and one found the CPU idle.
C28_Witness ==
    /\ engine = "RR" /\ pc = "done" /\ num_processes = 3
    /\ QuantumCoversEveryBurst
    /\ \E i \in Idx : processes[i].burst_time = time_quantum
    /\ \E i \in Idx : PreviousCompletion(i) > processes[i].arrival_time
    /\ \E i \in Idx : /\ PreviousCompletion(i) > 0
                      /\ PreviousCompletion(i) < processes[i].arrival_time

\* --------------------------------------------------------------------- C29
\* What a process is: its pid and its workload.
Identity(p) == << p.pid, p.arrival_time, p.burst_time, p.priority >>

\* The records are those of the loaded registry, up to their order.
SameProcesses ==
    /\ \A i \in Idx : \E j \in Idx : Identity(processes[i]) = Identity(input[j])
    /\ \A i, j \in Idx : i # j => processes[i].pid # processes[j].pid

\* The records are those of the loaded registry, in the same order.
SameOrder == \A i \in Idx : Identity(processes[i]) = Identity(input[i])

\* Every completion time written in the run is in the record of its pid.
CompletionWithItsPid ==
    \A k \in 1 .. Len(trace) :
       trace[k].fin =>
          \E i \in Idx : /\ processes[i].pid = trace[k].pid
                         /\ processes[i].completion_time = trace[k].end
                         /\ Identity(processes[i]) \in {Identity(input[j]) : j \in Idx}

C29_Frame ==
    /\ SameProcesses
    /\ CompletionWithItsPid
    /\ engine \in {"SRT", "PRI"} => SameOrder

\* C29: no engine changes the identity or the workload of a process.  During
\* and after a run of any of the three engines the pid, arrival_time,
\* burst_time and priority of every process are those of the loaded registry
\* and num_processes is unchanged; the sort of round_robin only permutes whole
\* records, each completion_time being stored in the record of its pid, while
\* shortest_remaining_time_first and priority_preemptive_rr leave the order of
\* the records unchanged.
C29_IdentityPreserved ==
    [][num_processes' = num_processes]_vars /\ []C29_Frame

\* round_robin has returned from a run of three processes with three different
\* burst times, having moved every record of the registry.
C29_Witness ==
    /\ engine = "RR" /\ pc = "done" /\ num_processes = 3
    /\ \A i \in Idx : processes[i].pid # input[i].pid
    /\ \A i, j \in Idx : i # j => processes[i].burst_time # processes[j].burst_time

====
